---- MODULE Spec2Model ----
(***************************************************************************)
(* Input reduction by beam search (rawr.py): get_rawr repeatedly calls     *)
(* remove_one to delete one token from every live beam, keeps the children *)
(* whose greedy prediction equals the original prediction, and records the *)
(* shortest prediction-preserving sequences found for each example.        *)
(*                                                                         *)
(* The model (model.predict, model.get_grad) is an external collaborator.  *)
(* model.predict is a deterministic oracle whose answers are revealed when *)
(* first asked for and remembered afterwards (predicted).  get_onehot_grad *)
(* scores the rows of its batch: model.get_grad is called outside the      *)
(* train=False block, so every row of every call gets a score list of its  *)
(* own, and equal beams of one call may be scored differently.             *)
(*                                                                         *)
(* Python lists are TLA+ sequences.  Positions stored in a list (token     *)
(* positions j, original positions in indices / removed_indices, the flat  *)
(* beam numbers in remained_indices) keep Python's 0-based values; element *)
(* k of a Python list s is s[k + 1] here.                                  *)
(***************************************************************************)
EXTENDS Integers, Sequences, FiniteSets, TLC

\* Bounds of the explored inputs.
\* examples of a batch
MaxExamples == 2
\* tokens of an example of a batch of several examples
MaxLen == 3
\* tokens of the example of a batch of one example
DeepLen == 4
\* the largest max_beam_size
MaxBeam == 2

\* Token ids, class labels and saliency scores the oracle draws from.
Tokens == {1, 2}
Classes == {0, 1}
Scores == {1, 2}

VARIABLES
    orig,             \* the caller's xs: the batch handed to get_rawr
    max_beam_size,    \* get_rawr's max_beam_size argument
    pc,               \* position in get_rawr
    xs,               \* flat list of beam sequences
    n_beams,          \* per example, how many entries of the flat lists it owns
    indices,          \* per beam, original position of each remaining token
    removed_indices,  \* per beam, original positions removed so far
    final_xs,         \* per example, the recorded sequences
    final_removed,    \* per example, the recorded removal lists
    final_length,     \* per example, the recorded best length
    ys_0,             \* per example, prediction of the original sequence
    ys,               \* per beam, prediction of the current candidates
    new_n_beams,      \* per example, the survivors counted by the last round
    onehot_grad,      \* remove_one's local: per beam, one score per token
    order,            \* remove_one's local: per beam, argsort of the scores
    predicted,        \* answers of model.predict revealed so far
    rounds,           \* number of iterations of the while loop started
    matched           \* per example, evaluated candidates that kept ys_0

vars == <<orig, max_beam_size, pc, xs, n_beams, indices, removed_indices,
          final_xs, final_removed, final_length, ys_0, ys, new_n_beams,
          onehot_grad, order, predicted, rounds, matched>>

----------------------------------------------------------------------------
\* Helpers on sequences.

Range(s) == {s[k] : k \in 1..Len(s)}

Min(a, b) == IF a <= b THEN a ELSE b

Max(a, b) == IF a >= b THEN a ELSE b

\* s[:n]
Prefix(s, n) == SubSeq(s, 1, Min(n, Len(s)))

\* range(n) as a list
RangeList(n) == [k \in 1..n |-> k - 1]

\* s[:j] + s[j+1:]  (j is a 0-based position)
DeleteAt(s, j) == SubSeq(s, 1, j) \o SubSeq(s, j + 2, Len(s))

RECURSIVE Sum(_)
Sum(s) == IF s = <<>> THEN 0 ELSE s[1] + Sum(Tail(s))

\* itertools.chain(*ss) / repeated list.append over the examples
RECURSIVE Flatten(_)
Flatten(ss) == IF ss = <<>> THEN <<>> ELSE ss[1] \o Flatten(Tail(ss))

\* the running offset `start` on reaching example e (1-based e)
StartOf(nb, e) == Sum(SubSeq(nb, 1, e - 1))

----------------------------------------------------------------------------
\* The model oracle.

RECURSIVE PredictChoices(_)
\* every way model.predict(argmax=True) can label the sequences of D
PredictChoices(D) ==
    IF D = {} THEN {<<>>}
    ELSE LET s == CHOOSE t \in D : TRUE
         IN {(s :> y) @@ f : y \in Classes, f \in PredictChoices(D \ {s})}

\* The score lists of one sequence: one score per token.  The score of the
\* last token is never read (remove_one sorts x[:-1]); it is explored at the
\* lowest score only, the value that would make it the first to be removed.
ScoreLists(s) ==
    {g \in [1..Len(s) -> Scores] :
        Len(s) > 0 => \A v \in Scores : g[Len(s)] <= v}

RECURSIVE GradChoices(_)
\* every way model.get_grad can score the rows of the batch beams: one score
\* list per row, chosen for the row and not for the sequence it holds
GradChoices(beams) ==
    IF beams = <<>> THEN {<<>>}
    ELSE {<<g>> \o f : g \in ScoreLists(beams[1]),
                       f \in GradChoices(Tail(beams))}

\* get_onehot_grad(model, xs): the score list of each row, split by the
\* lengths of the rows, under the scoring f of the rows
get_onehot_grad(f, beams) == [i \in 1..Len(beams) |-> f[i]]

----------------------------------------------------------------------------
\* remove_one

\* xp.argsort(x): the permutations of range(len(x)) that put x in ascending
\* order (the order among equal scores is the sort's choice)
ArgSorts(x) ==
    {p \in [1..Len(x) -> 0..(Len(x) - 1)] :
        /\ \A a, b \in 1..Len(x) : a # b => p[a] # p[b]
        /\ \A a \in 1..(Len(x) - 1) : x[p[a] + 1] <= x[p[a + 1] + 1]}

\* variant: the last position is ranked with the others
DropLastKeepsEos(x) == x

\* x[:-1]
DropLast(x) == SubSeq(x, 1, Len(x) - 1)

RECURSIVE OrderChoices(_)
\* order = [xp.argsort(x[:-1]).tolist() for x in onehot_grad]
OrderChoices(grad) ==
    IF grad = <<>> THEN {<<>>}
    ELSE {<<p>> \o rest : p \in ArgSorts(DropLast(grad[1])),
                          rest \in OrderChoices(Tail(grad))}

\* for j in order[i][:max_beam_size]: (onehot_grad[i][j], (i, j)); i is 0-based
BeamCoordinates(grad, ord, i, mbs) ==
    LET js == Prefix(ord[i + 1], mbs)
    IN [k \in 1..Len(js) |->
           [g |-> grad[i + 1][js[k] + 1], i |-> i, j |-> js[k]]]

RECURSIVE PoolCoordinates(_, _, _, _, _)
\* the coordinates of beams lo .. hi-1 in loop order
PoolCoordinates(grad, ord, lo, hi, mbs) ==
    IF lo >= hi THEN <<>>
    ELSE BeamCoordinates(grad, ord, lo, mbs)
         \o PoolCoordinates(grad, ord, lo + 1, hi, mbs)

\* sorted(coordinates, key=lambda x: -x[0]): stable, largest score first
SortCoordinates(pool) ==
    LET n == Len(pool)
        rank(k) == Cardinality({m \in 1..n :
                       \/ pool[m].g > pool[k].g
                       \/ pool[m].g = pool[k].g /\ m < k}) + 1
    IN [r \in 1..n |-> pool[CHOOSE k \in 1..n : rank(k) = r]]

\* variant: the pooled coordinates are not cut to max_beam_size
CapCoordinatesUncut(sorted, mbs) == sorted

\* [c for _, c in coordinates][:max_beam_size]
CapCoordinates(sorted, mbs) == Prefix(sorted, mbs)

\* variant: the child keeps the token at position j
ChildSequenceKeepsToken(beams, c) == beams[c.i + 1]

\* xp.concatenate([x[:j], x[j+1:]])
ChildSequence(beams, c) == DeleteAt(beams[c.i + 1], c.j)

\* variant: the child's positions are renumbered from 0
ChildIndicesRenumbered(idx, c) == RangeList(Len(idx[c.i + 1]) - 1)

\* indices[i][:j] + indices[i][j+1:]
ChildIndices(idx, c) == DeleteAt(idx[c.i + 1], c.j)

\* variant: the position in the shortened beam is appended
ChildRemovedLocal(idx, rem, c) == Append(rem[c.i + 1], c.j)

\* removed_indices[i] + [indices[i][j]]
ChildRemoved(idx, rem, c) == Append(rem[c.i + 1], idx[c.i + 1][c.j + 1])

\* One example's share of remove_one: its sorted pool and its children.
ExpandExample(beams, nb, idx, rem, mbs, grad, ord, e) ==
    LET start == StartOf(nb, e)
        pool == IF nb[e] = 0 THEN <<>>
                ELSE SortCoordinates(
                         PoolCoordinates(grad, ord, start,
                                         start + nb[e], mbs))
        kept == CapCoordinates(pool, mbs)
    IN [pool |-> pool,
        n |-> Len(kept),
        xs |-> [k \in 1..Len(kept) |-> ChildSequence(beams, kept[k])],
        indices |-> [k \in 1..Len(kept) |-> ChildIndices(idx, kept[k])],
        removed |-> [k \in 1..Len(kept) |-> ChildRemoved(idx, rem, kept[k])]]

\* variant: an example without beams gets no entry in new_n_beams
remove_one_skips_terminated(beams, nb, idx, rem, mbs, grad, ord) ==
    LET ex == [e \in 1..Len(nb) |->
                  ExpandExample(beams, nb, idx, rem, mbs, grad, ord, e)]
        RECURSIVE counts(_)
        counts(e) == IF e > Len(nb) THEN <<>>
                     ELSE (IF nb[e] = 0 THEN <<>> ELSE <<ex[e].n>>)
                          \o counts(e + 1)
    IN [new_xs |-> Flatten([e \in 1..Len(nb) |-> ex[e].xs]),
        new_n_beams |-> counts(1),
        new_indices |-> Flatten([e \in 1..Len(nb) |-> ex[e].indices]),
        new_removed_indices |-> Flatten([e \in 1..Len(nb) |-> ex[e].removed])]

\* remove_one(model, xs, n_beams, indices, removed_indices, max_beam_size)
remove_one(beams, nb, idx, rem, mbs, grad, ord) ==
    LET ex == [e \in 1..Len(nb) |->
                  ExpandExample(beams, nb, idx, rem, mbs, grad, ord, e)]
    IN [new_xs |-> Flatten([e \in 1..Len(nb) |-> ex[e].xs]),
        new_n_beams |-> [e \in 1..Len(nb) |-> ex[e].n],
        new_indices |-> Flatten([e \in 1..Len(nb) |-> ex[e].indices]),
        new_removed_indices |-> Flatten([e \in 1..Len(nb) |-> ex[e].removed])]

----------------------------------------------------------------------------
\* get_rawr

\* variant: a new minimum is appended to the records of the old minimum
RecordCandidateKeepsOld(acc, x, r) ==
    IF Len(x) < acc.final_length
    THEN [acc EXCEPT !.final_length = Len(x),
                     !.final_removed = Append(@, r),
                     !.final_xs = Append(@, x)]
    ELSE IF Len(x) = acc.final_length /\ x \notin Range(acc.final_xs)
    THEN [acc EXCEPT !.final_xs = Append(@, x),
                     !.final_removed = Append(@, r)]
    ELSE acc

\* variant: a candidate that ties the best length is not recorded
RecordCandidateNoTies(acc, x, r) ==
    IF Len(x) < acc.final_length
    THEN [acc EXCEPT !.final_length = Len(x),
                     !.final_removed = <<r>>,
                     !.final_xs = <<x>>]
    ELSE acc

\* variant: a tie is appended without the membership test
RecordCandidateNoDedup(acc, x, r) ==
    IF Len(x) < acc.final_length
    THEN [acc EXCEPT !.final_length = Len(x),
                     !.final_removed = <<r>>,
                     !.final_xs = <<x>>]
    ELSE IF Len(x) = acc.final_length
    THEN [acc EXCEPT !.final_xs = Append(@, x),
                     !.final_removed = Append(@, r)]
    ELSE acc

\* variant: a tie is appended to final_xs without its removal list
RecordCandidateUnpaired(acc, x, r) ==
    IF Len(x) < acc.final_length
    THEN [acc EXCEPT !.final_length = Len(x),
                     !.final_removed = <<r>>,
                     !.final_xs = <<x>>]
    ELSE IF Len(x) = acc.final_length /\ x \notin Range(acc.final_xs)
    THEN [acc EXCEPT !.final_xs = Append(@, x)]
    ELSE acc

\* The recording of one prediction-preserving candidate x with removal list r
\* into one example's (final_length, final_xs, final_removed).
RecordCandidate(acc, x, r) ==
    IF Len(x) < acc.final_length
    THEN [acc EXCEPT !.final_length = Len(x),
                     !.final_removed = <<r>>,
                     !.final_xs = <<x>>]
    ELSE IF Len(x) = acc.final_length /\ x \notin Range(acc.final_xs)
    THEN [acc EXCEPT !.final_xs = Append(@, x),
                     !.final_removed = Append(@, r)]
    ELSE acc

\* variant: the prediction is not compared
PreservesAlways(preds, i, y0) == TRUE

\* ys[i] == ys_0[example_idx]
Preserves(preds, i, y0) == preds[i + 1] = y0

\* variant: a candidate of length 1 stays live
StaysLiveAlways(x) == TRUE

\* a recorded candidate stays live unless only eos is left
StaysLive(x) == Len(x) # 1

RECURSIVE FilterBeamsKeepsDiverged(_, _, _, _, _, _, _)
\* variant: a candidate whose prediction diverged is not recorded but stays live
FilterBeamsKeepsDiverged(beams, preds, rem, y0, lo, hi, acc) ==
    IF lo >= hi THEN acc
    ELSE LET x == beams[lo + 1]
             rec == IF Preserves(preds, lo, y0)
                    THEN RecordCandidate(acc, x, rem[lo + 1])
                    ELSE acc
             nxt == IF StaysLive(x)
                    THEN [rec EXCEPT !.remained_indices = Append(@, lo),
                                     !.cnt = @ + 1]
                    ELSE rec
         IN FilterBeamsKeepsDiverged(beams, preds, rem, y0, lo + 1, hi, nxt)

RECURSIVE FilterBeamsDropsEos(_, _, _, _, _, _, _)
\* variant: a candidate of length 1 is skipped before it is recorded
FilterBeamsDropsEos(beams, preds, rem, y0, lo, hi, acc) ==
    IF lo >= hi THEN acc
    ELSE IF ~Preserves(preds, lo, y0) \/ ~StaysLive(beams[lo + 1])
    THEN FilterBeamsDropsEos(beams, preds, rem, y0, lo + 1, hi, acc)
    ELSE LET x == beams[lo + 1]
             rec == RecordCandidate(acc, x, rem[lo + 1])
             nxt == [rec EXCEPT !.remained_indices = Append(@, lo),
                                !.cnt = @ + 1]
         IN FilterBeamsDropsEos(beams, preds, rem, y0, lo + 1, hi, nxt)

RECURSIVE FilterBeamsCountsEos(_, _, _, _, _, _, _)
\* variant: cnt is incremented before the test for a candidate of length 1
FilterBeamsCountsEos(beams, preds, rem, y0, lo, hi, acc) ==
    IF lo >= hi THEN acc
    ELSE IF ~Preserves(preds, lo, y0)
    THEN FilterBeamsCountsEos(beams, preds, rem, y0, lo + 1, hi, acc)
    ELSE LET x == beams[lo + 1]
             rec == [RecordCandidate(acc, x, rem[lo + 1]) EXCEPT !.cnt = @ + 1]
             nxt == IF StaysLive(x)
                    THEN [rec EXCEPT !.remained_indices = Append(@, lo)]
                    ELSE rec
         IN FilterBeamsCountsEos(beams, preds, rem, y0, lo + 1, hi, nxt)

RECURSIVE FilterBeams(_, _, _, _, _, _, _)
\* for i in range(lo, hi): the body of the inner loop of get_rawr, for an
\* example whose original prediction is y0
FilterBeams(beams, preds, rem, y0, lo, hi, acc) ==
    IF lo >= hi THEN acc
    ELSE IF ~Preserves(preds, lo, y0)
    THEN FilterBeams(beams, preds, rem, y0, lo + 1, hi, acc)
    ELSE LET x == beams[lo + 1]
             rec == RecordCandidate(acc, x, rem[lo + 1])
             nxt == IF StaysLive(x)
                    THEN [rec EXCEPT !.remained_indices = Append(@, lo),
                                     !.cnt = @ + 1]
                    ELSE rec
         IN FilterBeams(beams, preds, rem, y0, lo + 1, hi, nxt)

\* variant: every example is compared with the prediction of the first example
FilterExampleFirstLabel(beams, nb, preds, rem, y0s, fl, fx, fr, e) ==
    LET start == StartOf(nb, e)
        acc0 == [final_length |-> fl[e], final_xs |-> fx[e],
                 final_removed |-> fr[e], remained_indices |-> <<>>, cnt |-> 0]
    IN IF nb[e] = 0 THEN acc0
       ELSE FilterBeams(beams, preds, rem, y0s[1], start, start + nb[e], acc0)

\* One example's share of the survivor loop of get_rawr.
FilterExample(beams, nb, preds, rem, y0s, fl, fx, fr, e) ==
    LET start == StartOf(nb, e)
        acc0 == [final_length |-> fl[e], final_xs |-> fx[e],
                 final_removed |-> fr[e], remained_indices |-> <<>>, cnt |-> 0]
    IN IF nb[e] = 0 THEN acc0
       ELSE FilterBeams(beams, preds, rem, y0s[e], start, start + nb[e], acc0)

\* the candidates of example e whose prediction equals ys_0[e]
MatchingCandidates(beams, nb, preds, y0s, e) ==
    {beams[k + 1] : k \in {i \in StartOf(nb, e)..(StartOf(nb, e) + nb[e] - 1) :
                              preds[i + 1] = y0s[e]}}

Examples == 1..Len(orig)

\* the non-empty token sequences of at most n tokens
SequencesUpTo(n) == UNION {[1..k -> Tokens] : k \in 1..n}

\* The batches explored: up to MaxExamples sequences of up to MaxLen tokens,
\* and one sequence of up to DeepLen tokens.
Batches ==
    UNION {[1..n -> SequencesUpTo(MaxLen)] : n \in 1..MaxExamples}
    \cup {<<s>> : s \in SequencesUpTo(DeepLen)}

Init ==
    /\ orig \in Batches
    /\ max_beam_size \in 1..MaxBeam
    /\ pc = "setup"
    /\ xs = orig
    /\ n_beams = <<>>
    /\ indices = <<>>
    /\ removed_indices = <<>>
    /\ final_xs = <<>>
    /\ final_removed = <<>>
    /\ final_length = <<>>
    /\ ys_0 = <<>>
    /\ ys = <<>>
    /\ new_n_beams = <<>>
    /\ onehot_grad = <<>>
    /\ order = <<>>
    /\ predicted = <<>>
    /\ rounds = 0
    /\ matched = <<>>

\* get_rawr up to the while loop
Setup ==
    /\ pc = "setup"
    /\ n_beams' = [e \in Examples |-> 1]
    /\ indices' = [e \in Examples |-> RangeList(Len(xs[e]))]
    /\ removed_indices' = [e \in Examples |-> <<>>]
    /\ final_xs' = [e \in Examples |-> <<xs[e]>>]
    /\ final_removed' = [e \in Examples |-> << <<>> >>]
    /\ final_length' = [e \in Examples |-> Len(xs[e])]
    /\ \E f \in PredictChoices(Range(xs) \ DOMAIN predicted) :
          /\ predicted' = f @@ predicted
          /\ ys_0' = [e \in Examples |-> predicted'[xs[e]]]
    /\ matched' = [e \in Examples |-> {}]
    /\ pc' = "remove_one"
    /\ UNCHANGED <<orig, max_beam_size, xs, ys, new_n_beams, onehot_grad, order,
                   rounds>>

\* the while loop calls remove_one, which scores the beams and ranks the
\* positions of each beam but the last
Score ==
    /\ pc = "remove_one"
    /\ \E f \in GradChoices(xs) :
          /\ onehot_grad' = get_onehot_grad(f, xs)
          /\ order' \in OrderChoices(onehot_grad')
    /\ rounds' = rounds + 1
    /\ pc' = "expand"
    /\ UNCHANGED <<orig, max_beam_size, xs, n_beams, indices, removed_indices,
                   final_xs, final_removed, final_length, ys_0, ys, new_n_beams,
                   predicted, matched>>

\* remove_one builds the children and returns them to get_rawr
Expand ==
    /\ pc = "expand"
    /\ LET r == remove_one(xs, n_beams, indices, removed_indices,
                           max_beam_size, onehot_grad, order)
       IN /\ xs' = r.new_xs
          /\ n_beams' = r.new_n_beams
          /\ indices' = r.new_indices
          /\ removed_indices' = r.new_removed_indices
    /\ onehot_grad' = <<>>
    /\ order' = <<>>
    /\ pc' = "predict"
    /\ UNCHANGED <<orig, max_beam_size, final_xs, final_removed, final_length,
                   ys_0, ys, new_n_beams, predicted, rounds, matched>>

\* ys = model.predict(xs, argmax=True) on the candidates
Predict ==
    /\ pc = "predict"
    /\ \E f \in PredictChoices(Range(xs) \ DOMAIN predicted) :
          /\ predicted' = f @@ predicted
          /\ ys' = [i \in 1..Len(xs) |-> predicted'[xs[i]]]
    /\ pc' = "filter"
    /\ UNCHANGED <<orig, max_beam_size, xs, n_beams, indices, removed_indices,
                   final_xs, final_removed, final_length, ys_0, new_n_beams,
                   onehot_grad, order, rounds, matched>>

\* the survivor loop, with the records it makes
Filtered ==
    [e \in Examples |->
        FilterExample(xs, n_beams, ys, removed_indices, ys_0,
                      final_length, final_xs, final_removed, e)]

RecordFinals ==
    /\ final_length' = [e \in Examples |-> Filtered[e].final_length]
    /\ final_xs' = [e \in Examples |-> Filtered[e].final_xs]
    /\ final_removed' = [e \in Examples |-> Filtered[e].final_removed]
    /\ new_n_beams' = [e \in Examples |-> Filtered[e].cnt]
    /\ matched' = [e \in Examples |->
                      matched[e] \cup MatchingCandidates(xs, n_beams, ys, ys_0, e)]

remained_indices == Flatten([e \in Examples |-> Filtered[e].remained_indices])

\* the survivor loop finds a live beam: the flat lists are rebuilt
FilterContinue ==
    /\ pc = "filter"
    /\ Len(remained_indices) # 0
    /\ RecordFinals
    /\ xs' = [k \in 1..Len(remained_indices) |-> xs[remained_indices[k] + 1]]
    /\ indices' = [k \in 1..Len(remained_indices) |->
                      indices[remained_indices[k] + 1]]
    /\ removed_indices' = [k \in 1..Len(remained_indices) |->
                              removed_indices[remained_indices[k] + 1]]
    /\ n_beams' = new_n_beams'
    /\ pc' = "remove_one"
    /\ UNCHANGED <<orig, max_beam_size, ys_0, ys, onehot_grad, order,
                   predicted, rounds>>

\* the survivor loop finds no live beam: break, return final_xs, final_removed
FilterBreak ==
    /\ pc = "filter"
    /\ Len(remained_indices) = 0
    /\ RecordFinals
    /\ pc' = "done"
    /\ UNCHANGED <<orig, max_beam_size, xs, n_beams, indices, removed_indices,
                   ys_0, ys, onehot_grad, order, predicted, rounds>>

Next == Setup \/ Score \/ Expand \/ Predict \/ FilterContinue \/ FilterBreak

Spec == Init /\ [][Next]_vars

----------------------------------------------------------------------------
\* main, on the lists that get_rawr returned for one batch

\* n_finals = [len(r) for r in reduced_xs]
n_finals == [e \in Examples |-> Len(final_xs[e])]

\* reduced_xs = list(itertools.chain(*reduced_xs))
reduced_xs == Flatten(final_xs)

\* removed_indices = list(itertools.chain(*removed_indices))
removed_indices_chained == Flatten(final_removed)

\* the entries appended to checkpoint for example_idx = e - 1: start is 0 and
\* is not advanced, so i runs over range(0, n_finals[example_idx])
checkpoint(e) ==
    LET start == 0
    IN [k \in 1..n_finals[e] |->
           [original_input |-> orig[e],
            reduced_input |-> reduced_xs[start + k],
            removed_indices |-> removed_indices_chained[start + k]]]

----------------------------------------------------------------------------
\* Vocabulary of the properties.

\* get_rawr is between two rounds, or has returned
RoundBoundary == pc \in {"remove_one", "done"}

\* the records exist (get_rawr has passed its initialisation)
Started == pc # "setup"

\* original positions 0 .. L_0-1 of example e
Positions(e) == 0..(Len(orig[e]) - 1)

\* the length of the longest original sequence of the batch
LongestOriginal ==
    CHOOSE n \in {Len(orig[e]) : e \in Examples} :
        \A e \in Examples : Len(orig[e]) <= n

RECURSIVE KeepPositions(_, _, _)
\* the tokens of s at the original positions p, p+1, ... that are in keep
KeepPositions(s, keep, p) ==
    IF p >= Len(s) THEN <<>>
    ELSE (IF p \in keep THEN <<s[p + 1]>> ELSE <<>>)
         \o KeepPositions(s, keep, p + 1)

RECURSIVE IsSubsequence(_, _)
\* x can be obtained from s by deleting tokens, keeping the order of the rest
IsSubsequence(x, s) ==
    IF x = <<>> THEN TRUE
    ELSE IF s = <<>> THEN FALSE
    ELSE IF Head(x) = Head(s) THEN IsSubsequence(Tail(x), Tail(s))
    ELSE IsSubsequence(x, Tail(s))

\* the flat positions (0-based) of the beams of example e
BeamsOf(e) == StartOf(n_beams, e)..(StartOf(n_beams, e) + n_beams[e] - 1)

\* the candidates of example e in the round being filtered whose prediction
\* equals the original prediction
Preserving(e) == {i \in BeamsOf(e) : ys[i + 1] = ys_0[e]}

----------------------------------------------------------------------------
\* C1 - Prediction preservation: every sequence recorded in final_xs[e] has
\* been predicted by the model, and its greedy prediction is ys_0[e], the
\* prediction of the original sequence of example e.
C1_PredictionPreserved ==
    Started =>
        \A e \in Examples : \A k \in 1..Len(final_xs[e]) :
            /\ final_xs[e][k] \in DOMAIN predicted
            /\ predicted[final_xs[e][k]] = ys_0[e]

\* get_rawr returned a reduction of an example after a round in which another
\* candidate of that example changed the prediction and was discarded
C1_Witness ==
    /\ pc = "done"
    /\ \E e \in Examples :
          /\ final_length[e] < Len(orig[e])
          /\ \E s \in DOMAIN predicted :
                /\ predicted[s] # ys_0[e]
                /\ IsSubsequence(s, orig[e])
                /\ Len(s) = final_length[e]

\* C2 - Minimality of the recorded set: at every round boundary and at return,
\* all sequences recorded for one example have the same length, which is
\* final_length[e].
C2_RecordedAtBestLength ==
    RoundBoundary =>
        \A e \in Examples : \A k \in 1..Len(final_xs[e]) :
            Len(final_xs[e][k]) = final_length[e]

\* a new minimum replaced a set of several tied reductions of the old minimum
C2_Witness ==
    /\ pc = "done"
    /\ \E e \in Examples :
          /\ final_length[e] + 2 <= Len(orig[e])
          /\ Cardinality({s \in matched[e] : Len(s) = final_length[e] + 1}) >= 2

\* C3 - Completeness at the minimal length: at return, final_length[e] is the
\* least length among the original and the evaluated candidates that kept the
\* original prediction, and every such candidate of that length is recorded.
C3_CompleteAtMinimum ==
    pc = "done" =>
        \A e \in Examples :
            LET lens == {Len(orig[e])} \cup {Len(s) : s \in matched[e]}
            IN /\ final_length[e] \in lens
               /\ \A n \in lens : final_length[e] <= n
               /\ \A s \in matched[e] :
                     Len(s) = final_length[e] => s \in Range(final_xs[e])

\* two different candidates of the minimal length kept the prediction
C3_Witness ==
    /\ pc = "done"
    /\ \E e \in Examples :
          Cardinality({s \in matched[e] : Len(s) = final_length[e]}) >= 2

\* C4 - Index correctness: the removed original positions of a recorded
\* reduction are pairwise distinct positions of the original, the recorded
\* sequence is the original restricted to the other positions, and the two
\* lengths add up to L_0.
C4_IndexPartition ==
    Started =>
        \A e \in Examples : \A k \in 1..Len(final_xs[e]) :
            LET r == final_removed[e][k]
                x == final_xs[e][k]
            IN /\ k <= Len(final_removed[e])
               /\ \A a, b \in 1..Len(r) : a # b => r[a] # r[b]
               /\ Range(r) \subseteq Positions(e)
               /\ x = KeepPositions(orig[e], Positions(e) \ Range(r), 0)
               /\ Len(r) + Len(x) = Len(orig[e])

\* a recorded reduction whose second removal is at an original position that
\* differs from the position the token had in the shortened parent
C4_Witness ==
    /\ pc = "done"
    /\ \E e \in Examples : \E k \in 1..Len(final_removed[e]) :
          /\ Len(final_removed[e][k]) >= 2
          /\ final_removed[e][k][1] < final_removed[e][k][2]

\* C5 - Monotonic shrinkage: the recorded best length is at most L_0, and every
\* recorded sequence is the original with tokens deleted (the rest in their
\* original order) that still ends with the original's last token; it is
\* shorter than the original unless it is the seeded original itself.
C5_MonotonicShrinkage ==
    Started =>
        \A e \in Examples :
            /\ final_length[e] <= Len(orig[e])
            /\ \A k \in 1..Len(final_xs[e]) :
                  LET x == final_xs[e][k]
                  IN /\ Len(x) >= 1
                     /\ x[Len(x)] = orig[e][Len(orig[e])]
                     /\ IsSubsequence(SubSeq(x, 1, Len(x) - 1),
                                      SubSeq(orig[e], 1, Len(orig[e]) - 1))
                     /\ Len(x) < Len(orig[e]) \/ x = orig[e]

\* a reduction by two tokens is returned for an example whose last token
\* also occurs before the end
C5_Witness ==
    /\ pc = "done"
    /\ \E e \in Examples :
          /\ final_length[e] + 2 <= Len(orig[e])
          /\ \E p \in 1..(Len(orig[e]) - 1) : orig[e][p] = orig[e][Len(orig[e])]

\* C6 (as stated) - the loop runs at most L_0 - 1 rounds, L_0 the length of
\* the longest original sequence of the batch.
C6_AtMostLongestMinusOne == rounds <= LongestOriginal - 1

\* the rounds still allowed by the bound max(1, L_0 - 1), counted in steps of
\* get_rawr: four steps to a round, the position in the round added
C6_StepsLeft ==
    4 * (Max(1, LongestOriginal - 1) - rounds)
    + CASE pc = "setup" -> 2
        [] pc = "remove_one" -> 1
        [] pc = "expand" -> 4
        [] pc = "predict" -> 3
        [] pc = "filter" -> 2
        [] pc = "done" -> 0

\* C6 (amended) - the loop exits after at most max(1, L_0 - 1) rounds: every
\* step of get_rawr uses up one of the steps that bound leaves, which never
\* run out before the exit; and the children that remove_one returns in round
\* r are r tokens shorter than their original.
C6_TerminatesWithinBound ==
    [][/\ C6_StepsLeft' < C6_StepsLeft
       /\ C6_StepsLeft' >= 0
       /\ pc = "expand" =>
             \A e \in Examples :
                 \A i \in StartOf(n_beams', e)..
                            (StartOf(n_beams', e) + n_beams'[e] - 1) :
                     Len(xs'[i + 1]) = Len(orig[e]) - rounds]_vars

\* the loop has exited after exactly L_0 - 1 >= 3 rounds
C6_Witness ==
    /\ pc = "done"
    /\ LongestOriginal >= 4
    /\ rounds = LongestOriginal - 1

\* C7 - Failure to reduce: after round 1, at every round boundary and at
\* return, an example none of whose evaluated candidates kept the original
\* prediction has the original sequence as its only record, with removal
\* list [], and no live beam.
C7_FixedPoint ==
    (RoundBoundary /\ rounds >= 1) =>
        \A e \in Examples :
            matched[e] = {} =>
                /\ final_xs[e] = <<orig[e]>>
                /\ final_removed[e] = << <<>> >>
                /\ final_length[e] = Len(orig[e])
                /\ new_n_beams[e] = 0

\* get_rawr returned the original of an example of several tokens all of
\* whose candidates changed the prediction, and a reduction of another example
C7_Witness ==
    /\ pc = "done"
    /\ \E e, d \in Examples :
          /\ matched[e] = {}
          /\ Len(orig[e]) >= 2
          /\ matched[d] # {}

\* C8 - Deduplication: at every round boundary and at return, the sequences
\* recorded for one example are pairwise different.
C8_NoDuplicateRecords ==
    RoundBoundary =>
        \A e \in Examples : \A a, b \in 1..Len(final_xs[e]) :
            a # b => final_xs[e][a] # final_xs[e][b]

\* the last round evaluated two prediction-preserving candidates of one
\* example with the same tokens
C8_Witness ==
    /\ pc = "done"
    /\ \E e \in Examples : \E i, j \in Preserving(e) :
          /\ i # j
          /\ xs[i + 1] = xs[j + 1]
          /\ xs[i + 1] \in Range(final_xs[e])

\* C9 - Pool selection in remove_one: of the pooled coordinates of an example,
\* the children are the deletions of the max_beam_size entries of lowest
\* saliency: no entry that is dropped has a strictly lower saliency than an
\* entry that is kept.
C9_LowestSaliencyKept ==
    pc = "expand" =>
        \A e \in Examples :
            LET ex == ExpandExample(xs, n_beams, indices, removed_indices,
                                    max_beam_size, onehot_grad, order, e)
            IN \A k \in 1..ex.n : \A d \in (ex.n + 1)..Len(ex.pool) :
                  ex.pool[d].g >= ex.pool[k].g

\* C10 - Bounded beam growth: after every call of remove_one and at every
\* round boundary each example has at most max_beam_size beams, so the flat
\* batch holds at most n_examples * max_beam_size sequences.
C10_BeamsBounded ==
    Started =>
        /\ \A e \in Examples : n_beams[e] <= max_beam_size
        /\ Len(xs) <= Len(orig) * max_beam_size
        /\ (RoundBoundary /\ rounds >= 1) =>
              \A e \in Examples : new_n_beams[e] <= max_beam_size

\* remove_one returned max_beam_size children of an example that had two
\* parent beams with two removable positions each
C10_Witness ==
    /\ pc = "predict"
    /\ rounds = 2
    /\ \E e \in Examples :
          /\ Len(orig[e]) = 4
          /\ n_beams[e] = max_beam_size
          /\ \E i, j \in BeamsOf(e) :
                removed_indices[i + 1][1] # removed_indices[j + 1][1]

\* the beam at flat position i (0-based) is example e's original with the
\* tokens at the positions of its removed list deleted, its index list
\* naming the positions that are left
DerivedFrom(i, e) ==
    /\ Range(indices[i + 1]) \cup Range(removed_indices[i + 1]) = Positions(e)
    /\ Len(indices[i + 1]) + Len(removed_indices[i + 1]) = Len(orig[e])
    /\ xs[i + 1] = KeepPositions(orig[e], Range(indices[i + 1]), 0)

\* C11 - Flat-list alignment: on entry to remove_one, on its return and after
\* the survivor filtering, n_beams has one entry per example, its sum is the
\* common length of xs, indices and removed_indices, and the beams of example
\* e are the slice of n_beams[e] entries that starts at sum(n_beams[0..e-1]).
C11_FlatListsAligned ==
    Started =>
        /\ Len(n_beams) = Len(orig)
        /\ Sum(n_beams) = Len(xs)
        /\ Len(indices) = Len(xs)
        /\ Len(removed_indices) = Len(xs)
        /\ \A e \in Examples : \A i \in BeamsOf(e) :
              i + 1 \in 1..Len(xs) /\ DerivedFrom(i, e)

\* after a round, the first example owns two beams and a second, different
\* example owns the beams that follow them
C11_Witness ==
    /\ pc = "remove_one"
    /\ rounds >= 1
    /\ Len(orig) >= 2
    /\ n_beams[1] >= 2
    /\ n_beams[2] >= 1
    /\ \A p \in 1..Len(orig[1]) : p <= Len(orig[2]) => orig[1][p] # orig[2][p]

\* C12 - TERMINATED is absorbing: once an example has no beam, no step of
\* get_rawr gives it a beam again or changes its records (final_xs,
\* final_removed, final_length), whatever the other examples do.
C12_TerminatedIsAbsorbing ==
    [][Started =>
          \A e \in Examples :
              n_beams[e] = 0 =>
                  /\ n_beams'[e] = 0
                  /\ final_xs'[e] = final_xs[e]
                  /\ final_removed'[e] = final_removed[e]
                  /\ final_length'[e] = final_length[e]]_vars

\* in the second round remove_one has returned children of one example and
\* none of another, which was reduced in the first round and has no beam since
C12_Witness ==
    /\ pc = "predict"
    /\ rounds = 2
    /\ \E e, d \in Examples :
          /\ n_beams[e] = 0
          /\ final_length[e] < Len(orig[e])
          /\ n_beams[d] > 0

\* C13 - The terminator is never removed: remove_one ranks no last position,
\* so every beam, candidate and recorded sequence is non-empty and ends with
\* the token at original position L_0 - 1, and no removed list holds L_0 - 1.
C13_TerminatorKept ==
    Started =>
        \A e \in Examples :
            /\ \A i \in BeamsOf(e) :
                  /\ Len(xs[i + 1]) >= 1
                  /\ Len(indices[i + 1]) = Len(xs[i + 1])
                  /\ indices[i + 1][Len(xs[i + 1])] = Len(orig[e]) - 1
                  /\ xs[i + 1][Len(xs[i + 1])] = orig[e][Len(orig[e])]
                  /\ Len(orig[e]) - 1 \notin Range(removed_indices[i + 1])
                  /\ pc = "expand" =>
                        Len(xs[i + 1]) - 1 \notin Range(order[i + 1])
            /\ \A k \in 1..Len(final_xs[e]) :
                  /\ Len(final_xs[e][k]) >= 1
                  /\ final_xs[e][k][Len(final_xs[e][k])] = orig[e][Len(orig[e])]
                  /\ Len(orig[e]) - 1 \notin Range(final_removed[e][k])

\* get_rawr returned the terminator alone for an example of three tokens or
\* more whose other tokens all differ from the terminator
C13_Witness ==
    /\ pc = "done"
    /\ \E e \in Examples :
          /\ Len(orig[e]) >= 3
          /\ final_length[e] = 1
          /\ \A p \in 1..(Len(orig[e]) - 1) : orig[e][p] # orig[e][Len(orig[e])]

\* C14 - Terminator-only candidates: the survivor loop records every
\* prediction-preserving candidate of length 1 in final_xs (the best length
\* becomes 1) and carries none into the next round, so the beams handed to
\* remove_one after the first round all have two tokens or more.
C14_TerminatorOnlyRecordedNotCarried ==
    [][pc = "filter" =>
          /\ \A e \in Examples : \A i \in Preserving(e) :
                Len(xs[i + 1]) = 1 =>
                    /\ xs[i + 1] \in Range(final_xs'[e])
                    /\ final_length'[e] = 1
                    /\ \A k \in 1..Len(remained_indices) :
                          remained_indices[k] # i
          /\ pc' = "remove_one" =>
                \A k \in 1..Len(xs') : Len(xs'[k]) >= 2]_vars

\* get_rawr went on to another round after a round that recorded the
\* terminator alone for one example and kept a longer beam of another
C14_Witness ==
    /\ pc = "remove_one"
    /\ rounds >= 1
    /\ \E e \in Examples :
          /\ Len(orig[e]) >= 2
          /\ final_length[e] = 1
          /\ n_beams[e] = 0

\* C15 - Original-position mapping: the index list of every beam is strictly
\* increasing, as long as the beam's sequence, and names for each token its
\* position in the original; and every child that remove_one returns has the
\* removed list of a parent beam of its example followed by the original
\* position of the one token the child lacks.
C15_OriginalPositions ==
    [][/\ Started' =>
             \A e \in Examples :
                 \A i \in StartOf(n_beams', e)..
                            (StartOf(n_beams', e) + n_beams'[e] - 1) :
                     /\ Len(indices'[i + 1]) = Len(xs'[i + 1])
                     /\ \A k \in 1..(Len(indices'[i + 1]) - 1) :
                           indices'[i + 1][k] < indices'[i + 1][k + 1]
                     /\ \A k \in 1..Len(xs'[i + 1]) :
                           /\ indices'[i + 1][k] \in Positions(e)
                           /\ xs'[i + 1][k] = orig[e][indices'[i + 1][k] + 1]
       /\ pc = "expand" =>
             \A e \in Examples :
                 \A c \in StartOf(n_beams', e)..
                            (StartOf(n_beams', e) + n_beams'[e] - 1) :
                     \E i \in BeamsOf(e) : \E p \in Range(indices[i + 1]) :
                         /\ removed_indices'[c + 1]
                               = Append(removed_indices[i + 1], p)
                         /\ Range(indices'[c + 1])
                               = Range(indices[i + 1]) \ {p}]_vars

\* remove_one returned a child whose second removal is at an original
\* position other than the position the token had in its parent
C15_Witness ==
    /\ pc = "predict"
    /\ rounds = 2
    /\ \E i \in 1..Len(xs) :
          /\ removed_indices[i][1] < removed_indices[i][2]
          /\ \E k \in 1..Len(xs[i]) : indices[i][k] # k - 1

\* the original of example e without the first m positions of removal list r
AfterRemoving(e, r, m) ==
    KeepPositions(orig[e], Positions(e) \ {r[k] : k \in 1..m}, 0)

\* the original of example e and each of the sequences obtained by the first
\* 1, 2, ..., m removals of r have been predicted with the original prediction
ChainPreserves(e, r, m) ==
    \A n \in 0..m :
        /\ AfterRemoving(e, r, n) \in DOMAIN predicted
        /\ predicted[AfterRemoving(e, r, n)] = ys_0[e]

\* C16 - Preserving chains: every beam that is live between two rounds has
\* the original prediction of its example; every record is the end of a chain
\* of single deletions from the original, each sequence of which has the
\* original prediction; and every candidate that is evaluated has a parent
\* whose whole chain has the original prediction.
C16_PreservingChains ==
    Started =>
        \A e \in Examples :
            /\ pc \in {"remove_one", "expand"} =>
                  \A i \in BeamsOf(e) :
                      /\ xs[i + 1] \in DOMAIN predicted
                      /\ predicted[xs[i + 1]] = ys_0[e]
                      /\ xs[i + 1] = AfterRemoving(e, removed_indices[i + 1],
                                                   Len(removed_indices[i + 1]))
                      /\ ChainPreserves(e, removed_indices[i + 1],
                                        Len(removed_indices[i + 1]))
            /\ \A k \in 1..Len(final_xs[e]) :
                  /\ final_xs[e][k] = AfterRemoving(e, final_removed[e][k],
                                                    Len(final_removed[e][k]))
                  /\ ChainPreserves(e, final_removed[e][k],
                                    Len(final_removed[e][k]))
            /\ pc \in {"predict", "filter"} =>
                  \A i \in BeamsOf(e) :
                      /\ Len(removed_indices[i + 1]) >= 1
                      /\ xs[i + 1] = AfterRemoving(e, removed_indices[i + 1],
                                                   Len(removed_indices[i + 1]))
                      /\ ChainPreserves(e, removed_indices[i + 1],
                                        Len(removed_indices[i + 1]) - 1)

\* get_rawr returned a reduction that is two deletions away from an original
\* one of whose single-deletion candidates had another prediction
C16_Witness ==
    /\ pc = "done"
    /\ \E e \in Examples :
          /\ \E k \in 1..Len(final_removed[e]) : Len(final_removed[e][k]) >= 2
          /\ \E q \in Positions(e) :
                /\ AfterRemoving(e, <<q>>, 1) \in DOMAIN predicted
                /\ predicted[AfterRemoving(e, <<q>>, 1)] # ys_0[e]

\* the number of rounds whose candidates have been produced by remove_one
RoundsExpanded == IF pc = "expand" THEN rounds - 1 ELSE rounds

\* C17 - Lengths by round: the beams of example e held after r calls of
\* remove_one (the candidates of round r, and the live beams kept of them) all
\* have length L_0 - r; and at return the records of e are the original alone
\* if no candidate of e ever kept the prediction, and otherwise are all
\* prediction-preserving candidates of the length L_0 - r of the last round r
\* in which e had such a candidate.
C17_LengthByRound ==
    Started =>
        \A e \in Examples :
            /\ \A i \in BeamsOf(e) :
                  Len(xs[i + 1]) = Len(orig[e]) - RoundsExpanded
            /\ \A s \in matched[e] :
                  /\ Len(orig[e]) - Len(s) \in 1..rounds
                  /\ final_length[e] <= Len(s)
            /\ RoundBoundary =>
                  IF matched[e] = {}
                  THEN final_xs[e] = <<orig[e]>>
                  ELSE \A k \in 1..Len(final_xs[e]) :
                          /\ final_xs[e][k] \in matched[e]
                          /\ \A s \in matched[e] :
                                Len(s) >= Len(final_xs[e][k])

\* get_rawr returned, after two rounds or more, for one example the original alone
\* and for another candidates of its second round, its last with a candidate
\* that kept the prediction
C17_Witness ==
    /\ pc = "done"
    /\ rounds >= 2
    /\ \E e, d \in Examples :
          /\ matched[e] = {}
          /\ Len(orig[e]) >= 2
          /\ final_length[d] = Len(orig[d]) - 1
          /\ Len(orig[d]) >= 3
          /\ Len(final_xs[d]) >= 2

\* C18 - Paired records: between rounds and at return, final_xs[e] and
\* final_removed[e] have the same number of entries, at least 1, and deleting
\* the original positions of final_removed[e][k] from the original of e gives
\* final_xs[e][k]; so at return the two chained lists of main have the same
\* length, the sum of n_finals, the entries of example e lie in them at the
\* offset of e side by side, and every entry main reads at one index i of
\* both lists is a sequence with its own removal list.
C18_RecordsPaired ==
    RoundBoundary =>
        /\ \A e \in Examples :
              /\ Len(final_xs[e]) = Len(final_removed[e])
              /\ Len(final_xs[e]) >= 1
              /\ \A k \in 1..Len(final_xs[e]) :
                    /\ Range(final_removed[e][k]) \subseteq Positions(e)
                    /\ final_xs[e][k]
                          = KeepPositions(orig[e],
                               Positions(e) \ Range(final_removed[e][k]), 0)
        /\ pc = "done" =>
              /\ Len(reduced_xs) = Sum(n_finals)
              /\ Len(removed_indices_chained) = Sum(n_finals)
              /\ \A e \in Examples : \A k \in 1..n_finals[e] :
                    /\ reduced_xs[StartOf(n_finals, e) + k] = final_xs[e][k]
                    /\ removed_indices_chained[StartOf(n_finals, e) + k]
                          = final_removed[e][k]
                    /\ \E d \in Examples :
                          checkpoint(e)[k].reduced_input
                             = KeepPositions(orig[d],
                                  Positions(d)
                                     \ Range(checkpoint(e)[k].removed_indices),
                                  0)

\* get_rawr returned several reductions for the first example and a
\* reduction for the second
C18_Witness ==
    /\ pc = "done"
    /\ Len(orig) = 2
    /\ Len(final_xs[1]) >= 2
    /\ final_length[1] < Len(orig[1])
    /\ final_length[2] < Len(orig[2])

====
